---- MODULE Spec2Model ----
(***************************************************************************)
(* Dungeon Escape: the navigation and turn-resolution core of the two      *)
(* builds of the game, the SFML build (gameLoopWithGUI) and the console    *)
(* build (gameLoop).  One behaviour of the model is one session of one     *)
(* build; the build is fixed in the initial state.                         *)
(*                                                                         *)
(* Room pointers are modelled as catalog positions (the catalog owns one   *)
(* Room per position and never changes), nullptr as NoRoom.  Strings that  *)
(* are compared character by character (inventory items, names) carry      *)
(* their ASCII codes.                                                      *)
(***************************************************************************)
EXTENDS Integers, Sequences, FiniteSets, TLC

(***************************************************************************)
(* Bounds of the model.                                                    *)
(***************************************************************************)
\* longest name typed into the name field
MaxNameLen == 1
\* most calls made on one Dungeon by DungeonSpec (a session makes at most 11:
\* the advance into the first room and one call in each of 10 turns)
MaxCalls == 11
\* longest inventory SortSpec sorts
MaxItems == 3
\* most turns PairSpec plays in each of its two sessions
MaxPairTurns == 5
MaxUseMoves == 11
MaxBuildTurns == 5
MaxClicks == 4

(***************************************************************************)
(* Program constants.                                                      *)
(***************************************************************************)
NoRoom == -1
InitialHealth == 100
InitialMoves == 10
BypassDamage == 5
\* mutant: the bypass penalty charged for a lost fight
FleeDamageBypass == BypassDamage
FleeDamage == 10
FightCoins == 10
CriticalHealth == 20
AsciiLimit == 128
Backspace == 8
Enter == 13

\* the room catalog, in construction order (position i of the code is
\* element i + 1 here)
rooms ==
    << [name |-> "Base",     enemyHealth |-> 15, item1 |-> "5 Coins",               item2 |-> "Armour"],
       [name |-> "Bronze",   enemyHealth |-> 25, item1 |-> "5 Coins",               item2 |-> "Health Booster Potion"],
       [name |-> "Platinum", enemyHealth |-> 35, item1 |-> "Health Booster Potion", item2 |-> "Armour"],
       [name |-> "Silver",   enemyHealth |-> 50, item1 |-> "5 Coins",               item2 |-> "Armour"],
       [name |-> "Gold",     enemyHealth |-> 70, item1 |-> "5 Coins",               item2 |-> "Health Booster Potion"] >>

\* mutant: the catalog counted one room short
getAssetCountShort == Len(rooms) - 1
getAssetCount == Len(rooms)

\* the Room a non-null pointer refers to
Room(r) == rooms[r + 1]

\* the characters of the item strings: the treasures of the catalog, and
\* "armour" and "Key", which only SortSpec puts into an inventory
Chars ==
    [s \in {"5 Coins", "Armour", "Health Booster Potion", "armour", "Key"} |->
        CASE s = "5 Coins" -> <<53, 32, 67, 111, 105, 110, 115>>
          [] s = "Armour" -> <<65, 114, 109, 111, 117, 114>>
          [] s = "armour" -> <<97, 114, 109, 111, 117, 114>>
          [] s = "Key" -> <<75, 101, 121>>
          [] s = "Health Booster Potion" ->
                <<72, 101, 97, 108, 116, 104, 32, 66, 111, 111, 115, 116, 101, 114,
                  32, 80, 111, 116, 105, 111, 110>>]

\* "Adventurer"
Adventurer == <<65, 100, 118, 101, 110, 116, 117, 114, 101, 114>>

\* the characters the model types into the name field
NameChars == {97}

(***************************************************************************)
(* State.                                                                  *)
(***************************************************************************)
VARIABLES
    build,            \* "gui" (gameLoopWithGUI) or "console" (gameLoop)
    pc,               \* "main": in main, before the game loop;
                      \* "loop": in the game loop, at its next read of input;
                      \* "done": the game loop has returned (console: main asks
                      \*         whether to play again);
                      \* "exit": console: main has returned
    windowOpen,       \* gui: sf::RenderWindow::isOpen
    fontLoaded,       \* gui: GUI::fontLoaded
    enteredName,      \* gui: GUI::enteredName
    tempState,        \* gui: main's tempState
    gameState,        \* gui: gameLoopWithGUI's gameState
    choice,           \* gui: gameLoopWithGUI's choice of the running iteration
    player,           \* Player: name, health, moves, coins, enemiesDefeated, inventory
    dungeon,          \* Dungeon: currentRoomIndex, roomStack
    currentRoom,      \* the game loop's currentRoom
    message,          \* the last outcome message (gui: message; console: printed)
    gameOverMessage,  \* the game-over message, "" while there is none
    last,             \* history: the last resolved action, see Resolved
    unit              \* the unit specifications' record of the calls they made;
                      \* << >> throughout a session

vars == << build, pc, windowOpen, fontLoaded, enteredName, tempState, gameState,
           choice, player, dungeon, currentRoom, message, gameOverMessage, last,
           unit >>

(***************************************************************************)
(* Character and Player.                                                   *)
(***************************************************************************)
\* mutant: a player constructed wounded and with loot
PlayerWounded(n) ==
    [name |-> n, health |-> InitialHealth - FleeDamage, moves |-> InitialMoves,
     coins |-> FightCoins, enemiesDefeated |-> 0, inventory |-> << >>]

\* Player::Player
Player(n) ==
    [name |-> n, health |-> InitialHealth, moves |-> InitialMoves, coins |-> 0,
     enemiesDefeated |-> 0, inventory |-> << >>]

\* mutant: the damage applied to a copy and lost
takeDamageIgnored(p, damage) == p

\* mutant: the health left to go below 0
takeDamageUnclamped(p, damage) == [p EXCEPT !.health = @ - damage]

\* mutant: the damage added to the health
takeDamageAdded(p, damage) ==
    LET h == p.health + damage
    IN  [p EXCEPT !.health = IF h < 0 THEN 0 ELSE h]

\* Character::takeDamage (the same in both builds)
takeDamage(p, damage) ==
    LET h == p.health - damage
    IN  [p EXCEPT !.health = IF h < 0 THEN 0 ELSE h]

\* mutant: the item put in front of the list
addToInventoryFront(p, item) == [p EXCEPT !.inventory = << item >> \o @]

\* Player::addToInventory
addToInventory(p, item) == [p EXCEPT !.inventory = Append(@, item)]

\* mutant: the coins added twice
addCoinsTwice(p, amount) == [p EXCEPT !.coins = @ + amount + amount]

\* Player::addCoins
addCoins(p, amount) == [p EXCEPT !.coins = @ + amount]

\* Player::incrementEnemiesDefeated
incrementEnemiesDefeated(p) == [p EXCEPT !.enemiesDefeated = @ + 1]

\* mutant: the move charged twice
useMoveTwice(b, p) == [p EXCEPT !.moves = @ - 2]

\* mutant: the decrement left out
useMoveForgotten(b, p) == p

\* Player::useMove: guarded in the gui build, unguarded in the console build
useMove(b, p) ==
    IF b = "gui"
    THEN IF p.moves > 0 THEN [p EXCEPT !.moves = @ - 1] ELSE p
    ELSE [p EXCEPT !.moves = @ - 1]

\* ::tolower on one character
tolower(c) == IF c >= 65 /\ c <= 90 THEN c + 32 ELSE c

\* std::transform(..., ::tolower)
ToLowerString(s) == [i \in 1..Len(s) |-> tolower(s[i])]

\* std::string operator<: lexicographic, a proper prefix is smaller
RECURSIVE StringLess(_, _)
StringLess(a, b) ==
    IF b = << >> THEN FALSE
    ELSE IF a = << >> THEN TRUE
    ELSE IF Head(a) < Head(b) THEN TRUE
    ELSE IF Head(b) < Head(a) THEN FALSE
    ELSE StringLess(Tail(a), Tail(b))

\* the comparison sortInventory sorts by: the case-folding lambda in the gui
\* build, std::list::sort's default operator< in the console build
InventoryLess(b, x, y) ==
    IF b = "gui"
    THEN StringLess(ToLowerString(Chars[x]), ToLowerString(Chars[y]))
    ELSE StringLess(Chars[x], Chars[y])

\* std::list::sort is a stable sort: x goes behind every element it is not
\* smaller than
RECURSIVE InsertSorted(_, _, _)
InsertSorted(b, x, s) ==
    IF s = << >> THEN << x >>
    ELSE IF InventoryLess(b, x, Head(s)) THEN << x >> \o s
    ELSE << Head(s) >> \o InsertSorted(b, x, Tail(s))

RECURSIVE ListSort(_, _)
ListSort(b, s) ==
    IF s = << >> THEN << >>
    ELSE InsertSorted(b, s[Len(s)], ListSort(b, SubSeq(s, 1, Len(s) - 1)))

\* mutant: the sort losing the first item of the list
sortInventoryLosing(b, p) ==
    [p EXCEPT !.inventory = IF @ = << >> THEN @ ELSE Tail(@)]

\* mutant: the inventory left in insertion order
sortInventoryForgotten(b, p) == p

\* Player::sortInventory
sortInventory(b, p) == [p EXCEPT !.inventory = ListSort(b, @)]

(***************************************************************************)
(* Dungeon.  A navigation call yields the dungeon after it (d) and the     *)
(* pointer it returns (ret).                                               *)
(***************************************************************************)
\* Dungeon::Dungeon: the gui build starts at position 0, the console build
\* before the first room
Dungeon(b) ==
    [currentRoomIndex |-> IF b = "gui" THEN 0 ELSE -1, roomStack |-> << >>]

\* GameAssetManager::getAsset(size_t index): the asset, or out_of_range
\* thrown.  A negative int converts to a size_t above every size, so it is
\* out of range as well.
getAsset(index) ==
    IF index >= 0 /\ index < getAssetCount
    THEN [thrown |-> FALSE, asset |-> index]
    ELSE [thrown |-> TRUE, asset |-> NoRoom]

\* mutant: getAsset called without the try block
getCurrentRoomGuiUncaught(d) ==
    [thrown |-> getAsset(d.currentRoomIndex).thrown,
     ret |-> getAsset(d.currentRoomIndex).asset, d |-> d]

\* Dungeon::getCurrentRoom of the gui build, as its caller sees it: the
\* exception of getAsset is caught and nullptr returned
getCurrentRoomGui(d) ==
    LET a == getAsset(d.currentRoomIndex)
    IN  [thrown |-> FALSE, ret |-> IF a.thrown THEN NoRoom ELSE a.asset, d |-> d]

\* Dungeon::getCurrentRoom of the console build, as its caller sees it
getCurrentRoomConsole(d) ==
    [thrown |-> FALSE,
     ret |-> IF d.currentRoomIndex >= 0 /\ d.currentRoomIndex < getAssetCount
             THEN d.currentRoomIndex
             ELSE NoRoom,
     d |-> d]

\* Dungeon::getCurrentRoom
getCurrentRoom(d) ==
    IF d.currentRoomIndex >= 0 /\ d.currentRoomIndex < getAssetCount
    THEN d.currentRoomIndex
    ELSE NoRoom

\* mutant: the room entered pushed, after the increment
advanceToNextRoomGuiPushAfter(d) ==
    IF d.currentRoomIndex < getAssetCount
    THEN LET next == d.currentRoomIndex + 1
         IN  [d   |-> [currentRoomIndex |-> next,
                       roomStack |-> IF next < getAssetCount
                                     THEN Append(d.roomStack, next)
                                     ELSE d.roomStack],
              ret |-> IF next < getAssetCount THEN next ELSE NoRoom]
    ELSE [d |-> d, ret |-> NoRoom]

\* mutant: a room already on the stack not pushed again
advanceToNextRoomGuiPushOnce(d) ==
    IF d.currentRoomIndex < getAssetCount
    THEN LET seen == \E i \in 1..Len(d.roomStack) : d.roomStack[i] = d.currentRoomIndex
             pushed == IF d.currentRoomIndex >= 0 /\ ~seen
                       THEN Append(d.roomStack, d.currentRoomIndex)
                       ELSE d.roomStack
             next == d.currentRoomIndex + 1
         IN  [d   |-> [currentRoomIndex |-> next, roomStack |-> pushed],
              ret |-> IF next < getAssetCount THEN next ELSE NoRoom]
    ELSE [d |-> d, ret |-> NoRoom]

\* mutant: the guard on the catalog's end left out
advanceToNextRoomGuiUnguarded(d) ==
    LET pushed == IF d.currentRoomIndex >= 0 /\ d.currentRoomIndex < getAssetCount
                  THEN Append(d.roomStack, d.currentRoomIndex)
                  ELSE d.roomStack
        next == d.currentRoomIndex + 1
    IN  [d   |-> [currentRoomIndex |-> next, roomStack |-> pushed],
         ret |-> IF next < getAssetCount THEN next ELSE NoRoom]

\* Dungeon::advanceToNextRoom of the gui build
advanceToNextRoomGui(d) ==
    IF d.currentRoomIndex < getAssetCount
    THEN LET pushed == IF d.currentRoomIndex >= 0 /\ d.currentRoomIndex < getAssetCount
                       THEN Append(d.roomStack, d.currentRoomIndex)
                       ELSE d.roomStack
             next == d.currentRoomIndex + 1
         IN  [d   |-> [currentRoomIndex |-> next, roomStack |-> pushed],
              ret |-> IF next < getAssetCount THEN next ELSE NoRoom]
    ELSE [d |-> d, ret |-> NoRoom]

\* mutant: the console build's advance pushing the room it leaves
advanceToNextRoomConsolePushLeft(d) ==
    IF d.currentRoomIndex < getAssetCount - 1
    THEN LET next == d.currentRoomIndex + 1
         IN  [d   |-> [currentRoomIndex |-> next,
                       roomStack |-> IF d.currentRoomIndex >= 0
                                     THEN Append(d.roomStack, d.currentRoomIndex)
                                     ELSE d.roomStack],
              ret |-> next]
    ELSE [d |-> d, ret |-> NoRoom]

\* mutant: the bound of the console build's advance off by one
advanceToNextRoomConsoleOffByOne(d) ==
    IF d.currentRoomIndex < getAssetCount
    THEN LET next == d.currentRoomIndex + 1
         IN  [d   |-> [currentRoomIndex |-> next, roomStack |-> Append(d.roomStack, next)],
              ret |-> next]
    ELSE [d |-> d, ret |-> NoRoom]

\* Dungeon::advanceToNextRoom of the console build
advanceToNextRoomConsole(d) ==
    IF d.currentRoomIndex < getAssetCount - 1
    THEN LET next == d.currentRoomIndex + 1
         IN  [d   |-> [currentRoomIndex |-> next, roomStack |-> Append(d.roomStack, next)],
              ret |-> next]
    ELSE [d |-> d, ret |-> NoRoom]

\* Dungeon::advanceToNextRoom of build b
advanceToNextRoom(b, d) ==
    IF b = "gui" THEN advanceToNextRoomGui(d) ELSE advanceToNextRoomConsole(d)

\* mutant: the index decremented instead of set to the new top's position
backtrackByDecrement(d) ==
    IF Len(d.roomStack) > 1
    THEN LET popped == SubSeq(d.roomStack, 1, Len(d.roomStack) - 1)
         IN  [d   |-> [currentRoomIndex |-> d.currentRoomIndex - 1, roomStack |-> popped],
              ret |-> popped[Len(popped)]]
    ELSE [d |-> d, ret |-> NoRoom]

\* mutant: the stack popped and its new top returned, the index left stale
backtrackIndexStale(d) ==
    IF Len(d.roomStack) > 1
    THEN LET popped == SubSeq(d.roomStack, 1, Len(d.roomStack) - 1)
         IN  [d |-> [d EXCEPT !.roomStack = popped], ret |-> popped[Len(popped)]]
    ELSE [d |-> d, ret |-> NoRoom]

\* mutant: the index moved back with the stack left as it was
backtrackKeepStack(d) ==
    IF Len(d.roomStack) > 1
    THEN [d   |-> [d EXCEPT !.currentRoomIndex = d.roomStack[Len(d.roomStack) - 1]],
          ret |-> d.roomStack[Len(d.roomStack) - 1]]
    ELSE [d |-> d, ret |-> NoRoom]

\* mutant: the stack popped before its depth is checked
backtrackPopFirst(d) ==
    IF Len(d.roomStack) > 0
    THEN LET popped == SubSeq(d.roomStack, 1, Len(d.roomStack) - 1)
         IN  IF popped # << >>
             THEN [d   |-> [currentRoomIndex |-> popped[Len(popped)], roomStack |-> popped],
                   ret |-> popped[Len(popped)]]
             ELSE [d |-> [d EXCEPT !.roomStack = popped], ret |-> NoRoom]
    ELSE [d |-> d, ret |-> NoRoom]

\* Dungeon::backtrack (the same in both builds): the stack holds pointers
\* into the catalog, so the scan finds the position the new top points to
backtrack(d) ==
    IF Len(d.roomStack) > 1
    THEN LET popped == SubSeq(d.roomStack, 1, Len(d.roomStack) - 1)
             prevRoom == popped[Len(popped)]
         IN  [d   |-> [currentRoomIndex |-> prevRoom, roomStack |-> popped],
              ret |-> prevRoom]
    ELSE [d |-> d, ret |-> NoRoom]

(***************************************************************************)
(* The history variable.                                                   *)
(***************************************************************************)
\* What the last resolved action was: how many actions were resolved so far
\* (n), its code, the room it was resolved in, the player and the dungeon
\* right before it (before its useMove), the player and the dungeon right
\* after its switch statement (before any game-over handling), the navigation
\* call it made, the pointer that call returned and the message it left.
\* from is the room the
\* player's most recent forward step left, as long as the player has not
\* backtracked since (NoRoom otherwise), before the action; arrivedFrom the
\* same after it.  advances counts the advanceToNextRoom calls of the session
\* so far (the one that enters the first room included), backtracks the
\* backtrack calls that returned a room.  onlyFights tells whether every
\* action resolved so far was a Fight.  screen is the screen gameLoopWithGUI
\* drew last ("none" before its first draw).  defeats[r] counts the times the
\* enemy of room r was defeated in the session.
Resolved(c, room, p, d, p2, d2, nav, ret, msg) ==
    [n |-> last.n + 1, choice |-> c, room |-> room, player |-> p, dungeon |-> d,
     acted |-> p2, moved |-> d2, nav |-> nav, ret |-> ret, message |-> msg,
     from |-> last.arrivedFrom,
     arrivedFrom |-> IF ret = NoRoom THEN last.arrivedFrom
                     ELSE IF nav = "advance" THEN room
                     ELSE NoRoom,
     advances |-> last.advances + (IF nav = "advance" THEN 1 ELSE 0),
     backtracks |-> last.backtracks
                      + (IF nav = "backtrack" /\ ret # NoRoom THEN 1 ELSE 0),
     onlyFights |-> last.onlyFights /\ c = 1,
     screen |-> last.screen,
     defeats |-> [r \in 0..(Len(rooms) - 1) |->
                    IF c = 1 /\ r = room /\ p2.enemiesDefeated > p.enemiesDefeated
                    THEN last.defeats[r] + 1
                    ELSE last.defeats[r]]]

\* no action resolved yet
NoTurn(p, d) ==
    [n |-> 0, choice |-> 0, room |-> NoRoom, player |-> p, dungeon |-> d,
     acted |-> p, moved |-> d, nav |-> "none", ret |-> NoRoom, message |-> "",
     from |-> NoRoom, arrivedFrom |-> NoRoom, advances |-> 0, backtracks |-> 0,
     onlyFights |-> TRUE, screen |-> "none",
     defeats |-> [r \in 0..(Len(rooms) - 1) |-> 0]]

\* the history l after an advanceToNextRoom call made outside an action (the
\* game loop entering the first room), if one was made
EnteredFirst(l, called) == IF called THEN [l EXCEPT !.advances = @ + 1] ELSE l

\* the history l after GUI::draw of an iteration of gameLoopWithGUI in the
\* state gs: the screen of gs, or the font error text; nothing is shown on a
\* closed window
Drawn(l, gs) ==
    IF windowOpen
    THEN [l EXCEPT !.screen = IF fontLoaded THEN gs ELSE "FontError"]
    ELSE l

(***************************************************************************)
(* GUI: events and GUI::handleEvent.                                       *)
(***************************************************************************)
\* sf::FloatRect::contains
contains(rect, x, y) ==
    /\ x >= rect.left /\ x < rect.left + rect.width
    /\ y >= rect.top  /\ y < rect.top + rect.height

\* buttons[i].getGlobalBounds() as GUI::setupUI lays the buttons out (size
\* 180 x 55 at (20 + 200 i, 440), outline 2); empty without the font
buttonBounds(i) ==
    IF fontLoaded
    THEN [left |-> 20 + i * 200 - 2, top |-> 440 - 2, width |-> 180 + 4, height |-> 55 + 4]
    ELSE [left |-> 0, top |-> 0, width |-> 0, height |-> 0]

\* startButton.getGlobalBounds(): 200 x 60 centred at (400, 480), outline 2
startButtonBounds ==
    IF fontLoaded
    THEN [left |-> 400 - 100 - 2, top |-> 480 - 30 - 2, width |-> 200 + 4, height |-> 60 + 4]
    ELSE [left |-> 0, top |-> 0, width |-> 0, height |-> 0]

Event(type, unicode, button, x, y) ==
    [type |-> type, unicode |-> unicode, button |-> button, x |-> x, y |-> y]

\* the events the window delivers when no letter is typed: closing, a key,
\* text (Backspace, Enter, a non-ASCII character) and mouse presses on and
\* off the buttons
Events ==
    {Event("Closed", 0, "None", 0, 0), Event("KeyPressed", 0, "None", 0, 0)}
    \cup {Event("TextEntered", u, "None", 0, 0) : u \in {Backspace, Enter, 233}}
    \cup {Event("MouseButtonPressed", 0, "Left", pos[1], pos[2]) :
            pos \in {<<100, 460>>, <<350, 470>>, <<410, 470>>, <<500, 460>>,
                     <<700, 460>>, <<10, 10>>}}
    \cup {Event("MouseButtonPressed", 0, "Right", 100, 460)}

\* a letter typed into the window
LetterEvents == {Event("TextEntered", u, "None", 0, 0) : u \in NameChars}

\* the button loop of the PLAYING case: the first button under the mouse
clickedButton(x, y) ==
    LET hit == {i \in 0..3 : contains(buttonBounds(i), x, y)}
    IN  IF hit = {} THEN -1 ELSE CHOOSE i \in hit : \A j \in hit : i <= j

\* GUI::handleEvent(event, gameState, choice): the game state, the choice,
\* the entered name and the window after it
handleEvent(event, gs, ch, name, open) ==
    LET open1 == IF event.type = "Closed" THEN FALSE ELSE open
        same == [gameState |-> gs, choice |-> ch, enteredName |-> name, windowOpen |-> open1]
        leftClick == event.type = "MouseButtonPressed" /\ event.button = "Left"
    IN  CASE gs = "NAME_INPUT" ->
                IF event.type = "TextEntered" /\ event.unicode < AsciiLimit
                THEN IF event.unicode = Backspace /\ name # << >>
                     THEN [same EXCEPT !.enteredName = SubSeq(name, 1, Len(name) - 1)]
                     ELSE IF event.unicode = Enter
                     THEN [same EXCEPT !.gameState = "INSTRUCTIONS"]
                     ELSE IF event.unicode # Backspace /\ event.unicode # Enter
                     THEN [same EXCEPT !.enteredName = Append(name, event.unicode)]
                     ELSE same
                ELSE same
          [] gs = "INSTRUCTIONS" ->
                IF leftClick /\ contains(startButtonBounds, event.x, event.y)
                THEN [same EXCEPT !.gameState = "PLAYING"]
                ELSE same
          [] gs = "PLAYING" ->
                IF leftClick /\ clickedButton(event.x, event.y) >= 0
                THEN [same EXCEPT !.choice = clickedButton(event.x, event.y) + 1]
                ELSE same
          [] gs = "GAME_OVER" ->
                IF event.type = "KeyPressed" \/ event.type = "MouseButtonPressed"
                THEN [same EXCEPT !.windowOpen = FALSE]
                ELSE same

\* the name field holds at most MaxNameLen characters in the model
WithinNameBound(e) == Len(e.enteredName) <= MaxNameLen

(***************************************************************************)
(* GUI: gameLoopWithGUI and main.  The game-over messages are modelled by  *)
(* tags: "WIN" (Congratulations! You escaped!), "LOSE_HEALTH" (Game Over!  *)
(* Your health is critical.), "LOSE_MOVES" (Game Over! You ran out of      *)
(* moves.), "QUIT" (You have quit the dungeon.), "ERROR" (Error: No rooms  *)
(* available.); the console build's messages by the same tags.             *)
(***************************************************************************)
\* the switch on choice of gameLoopWithGUI, p being the player after useMove
ResolveGui(c, room, p, d, msg) ==
    LET stay == [player |-> p, dungeon |-> d, room |-> room, quit |-> FALSE,
                 message |-> msg, nav |-> "none", ret |-> NoRoom]
    IN  CASE c = 1 ->
                LET enemyHealth == Room(room).enemyHealth
                    adv == advanceToNextRoomGui(d)
                IN  IF p.health >= enemyHealth
                    THEN [stay EXCEPT
                            !.player = incrementEnemiesDefeated(addCoins(
                                          addToInventory(
                                             addToInventory(takeDamage(p, enemyHealth),
                                                            Room(room).item1),
                                             Room(room).item2),
                                          FightCoins)),
                            !.message = "Victory",
                            !.dungeon = adv.d, !.room = adv.ret,
                            !.nav = "advance", !.ret = adv.ret]
                    ELSE [stay EXCEPT !.player = takeDamage(p, FleeDamage),
                                      !.message = "Fled"]
          [] c = 2 ->
                LET adv == advanceToNextRoomGui(d)
                IN  [stay EXCEPT !.player = takeDamage(p, BypassDamage),
                                 !.message = "Bypassed",
                                 !.dungeon = adv.d, !.room = adv.ret,
                                 !.nav = "advance", !.ret = adv.ret]
          [] c = 3 ->
                LET back == backtrack(d)
                IN  IF back.ret # NoRoom
                    THEN [stay EXCEPT !.dungeon = back.d, !.room = back.ret,
                                      !.message = "Backtracked",
                                      !.nav = "backtrack", !.ret = back.ret]
                    ELSE [stay EXCEPT !.dungeon = back.d, !.message = "NoBacktrack",
                                      !.nav = "backtrack", !.ret = back.ret]
          [] c = 4 -> [stay EXCEPT !.quit = TRUE]
          [] OTHER -> stay

\* mutant: the out-of-moves check left out
checkGameOverNoMoves(room, p) ==
    IF room = NoRoom THEN "WIN"
    ELSE IF p.health < CriticalHealth THEN "LOSE_HEALTH"
    ELSE ""

\* mutant: the critical-health check left out
checkGameOverNoHealth(room, p) ==
    IF room = NoRoom THEN "WIN"
    ELSE IF p.moves <= 0 THEN "LOSE_MOVES"
    ELSE ""

\* mutant: health 20 counted as critical
checkGameOverAtTwenty(room, p) ==
    IF room = NoRoom THEN "WIN"
    ELSE IF p.health <= CriticalHealth THEN "LOSE_HEALTH"
    ELSE IF p.moves <= 0 THEN "LOSE_MOVES"
    ELSE ""

\* the win/lose check of gameLoopWithGUI after an action: the game-over
\* message, "" when the game continues
checkGameOver(room, p) ==
    IF room = NoRoom THEN "WIN"
    ELSE IF p.health < CriticalHealth THEN "LOSE_HEALTH"
    ELSE IF p.moves <= 0 THEN "LOSE_MOVES"
    ELSE ""

\* main: one event polled in the name-input loop
MainHandleEvent(event) ==
    /\ build = "gui" /\ pc = "main" /\ windowOpen
    /\ LET e == handleEvent(event, tempState, -1, enteredName, windowOpen)
       IN  /\ WithinNameBound(e)
           /\ tempState' = e.gameState
           /\ enteredName' = e.enteredName
           /\ windowOpen' = e.windowOpen
    /\ UNCHANGED << unit, build, pc, fontLoaded, gameState, choice, player, dungeon,
                    currentRoom, message, gameOverMessage, last >>

\* main: no more events in this iteration of the name-input loop.  The loop
\* goes on showing the name screen, or it ends (the name was confirmed or the
\* window closed): main then constructs the Player and the Dungeon and calls
\* gameLoopWithGUI, which runs no iteration at all on a closed window.
MainPollDone ==
    /\ build = "gui" /\ pc = "main"
    /\ IF tempState # "NAME_INPUT" \/ ~windowOpen
       THEN /\ player' = Player(IF enteredName = << >> THEN Adventurer ELSE enteredName)
            /\ dungeon' = Dungeon("gui")
            /\ last' = NoTurn(player', dungeon')
            /\ gameState' = "NAME_INPUT"
            /\ currentRoom' = NoRoom
            /\ message' = ""
            /\ gameOverMessage' = ""
            /\ choice' = -1
            /\ pc' = IF windowOpen THEN "loop" ELSE "done"
            /\ UNCHANGED << unit, build, windowOpen, fontLoaded, enteredName, tempState >>
       ELSE UNCHANGED vars

\* gameLoopWithGUI: one event polled in the running iteration
LoopHandleEvent(event) ==
    /\ build = "gui" /\ pc = "loop" /\ windowOpen
    /\ LET e == handleEvent(event, gameState, choice, enteredName, windowOpen)
       IN  /\ WithinNameBound(e)
           /\ gameState' = e.gameState
           /\ choice' = e.choice
           /\ enteredName' = e.enteredName
           /\ windowOpen' = e.windowOpen
    /\ UNCHANGED << unit, build, pc, fontLoaded, tempState, player, dungeon, currentRoom,
                    message, gameOverMessage, last >>

\* gameLoopWithGUI: no more events in the running iteration; the rest of the
\* iteration (game logic, game-over sort, update and draw) up to the next
\* iteration's first poll, or the end of the loop on a closed window
LoopUpdate ==
    /\ build = "gui" /\ pc = "loop"
    /\ LET playing == gameState = "PLAYING"
           first == playing /\ currentRoom = NoRoom
           adv == advanceToNextRoomGui(dungeon)
           noRooms == first /\ adv.ret = NoRoom
           d0 == IF first THEN adv.d ELSE dungeon
           room0 == IF first THEN adv.ret ELSE currentRoom
           msg0 == IF first /\ ~noRooms THEN "Entered" ELSE message
           acts == playing /\ choice > 0
           r == ResolveGui(choice, room0, useMove("gui", player), d0, msg0)
           quit == acts /\ r.quit
           p2 == IF acts THEN r.player ELSE player
           d2 == IF acts THEN r.dungeon ELSE d0
           room2 == IF acts THEN r.room ELSE room0
           checked == IF acts /\ ~noRooms /\ ~quit THEN checkGameOver(room2, p2) ELSE ""
           over == IF noRooms THEN "ERROR"
                   ELSE IF quit THEN "QUIT"
                   ELSE IF checked # "" THEN checked
                   ELSE gameOverMessage
           gs == IF noRooms \/ quit \/ checked # "" THEN "GAME_OVER" ELSE gameState
       IN  /\ player' = IF gs = "GAME_OVER" THEN sortInventory("gui", p2) ELSE p2
           /\ dungeon' = d2
           /\ currentRoom' = room2
           /\ message' = IF acts THEN r.message ELSE msg0
           /\ gameOverMessage' = over
           /\ gameState' = gs
           /\ last' = Drawn(EnteredFirst(IF acts
                                          THEN Resolved(choice, room0, player, d0,
                                                        r.player, r.dungeon, r.nav,
                                                        r.ret, r.message)
                                          ELSE last,
                                          first),
                            gs)
    /\ choice' = -1
    /\ pc' = IF windowOpen THEN "loop" ELSE "done"
    /\ UNCHANGED << unit, build, windowOpen, fontLoaded, enteredName, tempState >>

(***************************************************************************)
(* Console: gameLoop.  The recursive call that ends a turn runs up to the  *)
(* next read of input, so a turn reaches from one read to the next.        *)
(***************************************************************************)
\* the integers the model reads besides 1..4
InvalidChoices == {0, 5, -1}

\* mutant: the out-of-moves base case only below 0
gameLoopEntryBelowZero(p, d, room) ==
    IF p.health < CriticalHealth
    THEN [over |-> "LOSE_HEALTH", d |-> d, room |-> room]
    ELSE IF p.moves < 0
    THEN [over |-> "LOSE_MOVES", d |-> d, room |-> room]
    ELSE IF getCurrentRoom(d) = NoRoom
    THEN [over |-> "", d |-> advanceToNextRoomConsole(d).d,
          room |-> advanceToNextRoomConsole(d).ret]
    ELSE [over |-> "", d |-> d, room |-> getCurrentRoom(d)]

\* gameLoop from its entry to its read of input: the base cases, then the
\* current room (the first advance when there is none yet)
gameLoopEntry(p, d, room) ==
    IF p.health < CriticalHealth
    THEN [over |-> "LOSE_HEALTH", d |-> d, room |-> room]
    ELSE IF p.moves <= 0
    THEN [over |-> "LOSE_MOVES", d |-> d, room |-> room]
    ELSE IF getCurrentRoom(d) = NoRoom
    THEN [over |-> "", d |-> advanceToNextRoomConsole(d).d,
          room |-> advanceToNextRoomConsole(d).ret]
    ELSE [over |-> "", d |-> d, room |-> getCurrentRoom(d)]

\* mutant: the switch matches no case and always takes its default branch
ResolveConsoleDefaultOnly(c, room, p, d) ==
    [player |-> p, acted |-> p, dungeon |-> d, over |-> "",
     message |-> "InvalidChoice", nav |-> "none", ret |-> NoRoom]

\* the switch on choice of gameLoop, p being the player after useMove; acted
\* is the player before the sortInventory of a win
ResolveConsole(c, room, p, d) ==
    LET stay == [player |-> p, acted |-> p, dungeon |-> d, over |-> "",
                 message |-> "InvalidChoice", nav |-> "none", ret |-> NoRoom]
        adv == advanceToNextRoomConsole(d)
        won(q, msg) ==
            [stay EXCEPT !.acted = q,
                         !.player = IF adv.ret = NoRoom THEN sortInventory("console", q) ELSE q,
                         !.over = IF adv.ret = NoRoom THEN "WIN" ELSE "",
                         !.message = msg,
                         !.dungeon = adv.d, !.nav = "advance", !.ret = adv.ret]
    IN  CASE c = 1 ->
                LET enemyHealth == Room(room).enemyHealth
                IN  IF p.health >= enemyHealth
                    THEN won(incrementEnemiesDefeated(addCoins(
                                addToInventory(
                                   addToInventory(takeDamage(p, enemyHealth),
                                                  Room(room).item1),
                                   Room(room).item2),
                                FightCoins)),
                             "Victory")
                    ELSE [stay EXCEPT !.player = takeDamage(p, FleeDamage),
                                      !.acted = takeDamage(p, FleeDamage),
                                      !.message = "Fled"]
          [] c = 2 -> won(takeDamage(p, BypassDamage), "Bypassed")
          [] c = 3 ->
                LET back == backtrack(d)
                IN  [stay EXCEPT !.dungeon = back.d,
                                 !.message = IF back.ret # NoRoom THEN "Backtracked"
                                             ELSE "NoBacktrack",
                                 !.nav = "backtrack", !.ret = back.ret]
          [] c = 4 -> [stay EXCEPT !.over = "QUIT", !.message = message]
          [] OTHER -> stay

\* main calls gameLoop: the first entry, up to the first read of input
ConsoleStart ==
    /\ build = "console" /\ pc = "main"
    /\ LET e == gameLoopEntry(player, dungeon, currentRoom)
       IN  /\ dungeon' = e.d
           /\ currentRoom' = e.room
           /\ gameOverMessage' = e.over
           /\ pc' = IF e.over = "" THEN "loop" ELSE "done"
           /\ last' = EnteredFirst(last, e.d # dungeon)
    /\ UNCHANGED << unit, build, windowOpen, fontLoaded, enteredName, tempState, gameState,
                    choice, player, message >>

\* gameLoop reads the integer c: useMove, the switch, and the recursive call
\* up to the next read
ConsoleInput(c) ==
    /\ build = "console" /\ pc = "loop"
    /\ LET r == ResolveConsole(c, currentRoom, useMove("console", player), dungeon)
           e == gameLoopEntry(r.player, r.dungeon, currentRoom)
           over == IF r.over # "" THEN r.over ELSE e.over
       IN  /\ player' = r.player
           /\ dungeon' = IF r.over # "" THEN r.dungeon ELSE e.d
           /\ currentRoom' = IF r.over # "" THEN currentRoom ELSE e.room
           /\ message' = r.message
           /\ gameOverMessage' = over
           /\ pc' = IF over = "" THEN "loop" ELSE "done"
           /\ last' = EnteredFirst(Resolved(c, currentRoom, player, dungeon, r.acted,
                                            r.dungeon, r.nav, r.ret, r.message),
                                   r.over = "" /\ e.d # r.dungeon)
    /\ UNCHANGED << unit, build, windowOpen, fontLoaded, enteredName, tempState, gameState,
                    choice >>

\* gameLoop reads something that is no integer: the input is discarded and
\* the recursive call asks again
ConsoleBadInput ==
    /\ build = "console" /\ pc = "loop"
    /\ LET e == gameLoopEntry(player, dungeon, currentRoom)
       IN  /\ dungeon' = e.d
           /\ currentRoom' = e.room
           /\ gameOverMessage' = e.over
           /\ pc' = IF e.over = "" THEN "loop" ELSE "done"
           /\ last' = EnteredFirst(last, e.d # dungeon)
    /\ message' = "InvalidInput"
    /\ UNCHANGED << unit, build, windowOpen, fontLoaded, enteredName, tempState, gameState,
                    choice, player >>

\* main's do-while after gameLoop has returned: the answer is y or Y, and the
\* next iteration reads a name and constructs a new Player and Dungeon
ConsolePlayAgain(n) ==
    /\ build = "console" /\ pc = "done"
    /\ player' = Player(n)
    /\ dungeon' = Dungeon("console")
    /\ currentRoom' = NoRoom
    /\ message' = ""
    /\ gameOverMessage' = ""
    /\ last' = NoTurn(player', dungeon')
    /\ pc' = "main"
    /\ UNCHANGED << unit, build, windowOpen, fontLoaded, enteredName, tempState, gameState,
                    choice >>

\* main's do-while after gameLoop has returned: any other answer leaves main
ConsoleThanks ==
    /\ build = "console" /\ pc = "done"
    /\ pc' = "exit"
    /\ UNCHANGED << unit, build, windowOpen, fontLoaded, enteredName, tempState, gameState,
                    choice, player, dungeon, currentRoom, message, gameOverMessage,
                    last >>

(***************************************************************************)
(* The specification.                                                      *)
(***************************************************************************)
\* the names the console build reads: non-empty words
ConsoleNames == UNION {[1..n -> NameChars] : n \in 1..MaxNameLen}

\* gui: the GUI is constructed and main is in its name-input loop, showing a
\* temporary Player("").  console: main has read the name and constructed the
\* Player and the Dungeon.
Init ==
    /\ build \in {"gui", "console"}
    /\ pc = "main"
    /\ windowOpen = (build = "gui")
    /\ fontLoaded \in IF build = "gui" THEN BOOLEAN ELSE {FALSE}
    /\ enteredName = << >>
    /\ tempState = "NAME_INPUT"
    /\ gameState = "NAME_INPUT"
    /\ choice = -1
    /\ player \in IF build = "gui" THEN {Player(<< >>)} ELSE {Player(n) : n \in ConsoleNames}
    /\ dungeon = Dungeon(build)
    /\ currentRoom = NoRoom
    /\ message = ""
    /\ gameOverMessage = ""
    /\ last = NoTurn(player, dungeon)
    /\ unit = << >>

\* one step of the session, the window delivering events out of evs
Step(evs) ==
    \/ \E event \in evs : MainHandleEvent(event)
    \/ MainPollDone
    \/ \E event \in evs : LoopHandleEvent(event)
    \/ LoopUpdate
    \/ ConsoleStart
    \/ \E c \in 1..4 \cup InvalidChoices : ConsoleInput(c)
    \/ ConsoleBadInput
    \/ \E n \in ConsoleNames : ConsolePlayAgain(n)
    \/ ConsoleThanks

\* the sessions in which no letter is typed into the window (the gui build's
\* player is "Adventurer")
Next == Step(Events)

Spec == Init /\ [][Next]_vars

\* the sessions with letters typed as well
TypingNext == Step(Events \cup LetterEvents)

TypingSpec == Init /\ [][TypingNext]_vars

(***************************************************************************)
(* NameSpec: the sessions of the gui build in which the player types and   *)
(* edits a name, starts the game and at most quits it: the events are the  *)
(* closing of the window, Backspace, Enter, a letter, and left clicks on   *)
(* the start button and on the Quit button.                                *)
(***************************************************************************)
NameEvents ==
    {Event("Closed", 0, "None", 0, 0)}
    \cup {Event("TextEntered", u, "None", 0, 0) : u \in {Backspace, Enter}}
    \cup LetterEvents
    \cup {Event("MouseButtonPressed", 0, "Left", pos[1], pos[2]) :
            pos \in {<<410, 470>>, <<700, 460>>}}

NameInit == Init /\ build = "gui"

NameNext ==
    \/ \E event \in NameEvents : MainHandleEvent(event)
    \/ MainPollDone
    \/ \E event \in NameEvents : LoopHandleEvent(event)
    \/ LoopUpdate

NameSpec == NameInit /\ [][NameNext]_vars

(***************************************************************************)
(* DungeonSpec: a Dungeon of either build, freshly constructed, takes up   *)
(* to MaxCalls calls of advanceToNextRoom and backtrack in any order.      *)
(* unit records the calls: the operation, the pointer returned, and the    *)
(* dungeon before and after.                                               *)
(***************************************************************************)
\* what the unit specifications do not use
Idle ==
    /\ pc = "unit"
    /\ windowOpen = FALSE
    /\ fontLoaded = FALSE
    /\ enteredName = << >>
    /\ tempState = "NAME_INPUT"
    /\ gameState = "NAME_INPUT"
    /\ choice = -1
    /\ currentRoom = NoRoom
    /\ message = ""
    /\ gameOverMessage = ""

DungeonInit ==
    /\ build \in {"gui", "console"}
    /\ dungeon = Dungeon(build)
    /\ player = Player(Adventurer)
    /\ last = NoTurn(player, dungeon)
    /\ unit = << >>
    /\ Idle

Called(op, r) ==
    /\ Len(unit) < MaxCalls
    /\ dungeon' = r.d
    /\ unit' = Append(unit, [op |-> op, ret |-> r.ret, before |-> dungeon, after |-> r.d])
    /\ UNCHANGED << build, pc, windowOpen, fontLoaded, enteredName, tempState, gameState,
                    choice, player, currentRoom, message, gameOverMessage, last >>

CallAdvance == Called("advance", advanceToNextRoom(build, dungeon))

CallBacktrack == Called("backtrack", backtrack(dungeon))

DungeonNext == CallAdvance \/ CallBacktrack

DungeonSpec == DungeonInit /\ [][DungeonNext]_vars

(***************************************************************************)
(* SortSpec: Player::sortInventory of either build, applied once to an     *)
(* inventory of up to MaxItems items.  unit records the inventory before   *)
(* the call.                                                               *)
(***************************************************************************)
\* the items SortSpec has added to the inventory
SortItems == {"armour", "5 Coins", "Key", "Armour"}

SortInit ==
    /\ build \in {"gui", "console"}
    /\ \E inv \in UNION {[1..n -> SortItems] : n \in 0..MaxItems} :
          player = [Player(Adventurer) EXCEPT !.inventory = inv]
    /\ dungeon = Dungeon(build)
    /\ last = NoTurn(player, dungeon)
    /\ unit = << >>
    /\ Idle

CallSort ==
    /\ unit = << >>
    /\ player' = sortInventory(build, player)
    /\ unit' = << [op |-> "sort", before |-> player.inventory] >>
    /\ UNCHANGED << build, pc, windowOpen, fontLoaded, enteredName, tempState, gameState,
                    choice, dungeon, currentRoom, message, gameOverMessage, last >>

SortNext == CallSort

SortSpec == SortInit /\ [][SortNext]_vars

(***************************************************************************)
(* PairSpec: two sessions of the gui build played side by side, a turn in  *)
(* each at every step, from the state in which gameLoopWithGUI has entered *)
(* the first room.  The first session is in the variables of the game      *)
(* loop, the second in unit[1].                                            *)
(***************************************************************************)
\* one playing iteration of gameLoopWithGUI with the action c chosen, on the
\* session s: useMove, the switch, the win/lose check and the game-over sort
playTurn(c, s) ==
    LET r == ResolveGui(c, s.currentRoom, useMove("gui", s.player), s.dungeon, s.message)
        over == IF r.quit THEN "QUIT" ELSE checkGameOver(r.room, r.player)
    IN  [player |-> IF over # "" THEN sortInventory("gui", r.player) ELSE r.player,
         dungeon |-> r.dungeon,
         currentRoom |-> r.room,
         message |-> r.message,
         gameOverMessage |-> over,
         turns |-> s.turns + 1]

\* the session gameLoopWithGUI has in its variables
Session(turns) ==
    [player |-> player, dungeon |-> dungeon, currentRoom |-> currentRoom,
     message |-> message, gameOverMessage |-> gameOverMessage, turns |-> turns]

PairInit ==
    /\ build = "gui"
    /\ pc = "loop"
    /\ windowOpen = TRUE
    /\ fontLoaded = TRUE
    /\ enteredName = << >>
    /\ tempState = "INSTRUCTIONS"
    /\ gameState = "PLAYING"
    /\ choice = -1
    /\ player = Player(Adventurer)
    /\ dungeon = advanceToNextRoomGui(Dungeon("gui")).d
    /\ currentRoom = advanceToNextRoomGui(Dungeon("gui")).ret
    /\ message = "Entered"
    /\ gameOverMessage = ""
    /\ last = NoTurn(player, Dungeon("gui"))
    /\ unit = << Session(0) >>

PairTurn(c1, c2) ==
    /\ gameState = "PLAYING" /\ unit[1].gameOverMessage = ""
    /\ unit[1].turns < MaxPairTurns
    /\ LET a == playTurn(c1, Session(unit[1].turns))
           b == playTurn(c2, unit[1])
       IN  /\ player' = a.player
           /\ dungeon' = a.dungeon
           /\ currentRoom' = a.currentRoom
           /\ message' = a.message
           /\ gameOverMessage' = a.gameOverMessage
           /\ gameState' = IF a.gameOverMessage # "" THEN "GAME_OVER" ELSE "PLAYING"
           /\ unit' = << b >>
    /\ UNCHANGED << build, pc, windowOpen, fontLoaded, enteredName, tempState, choice,
                    last >>

PairNext == \E c1, c2 \in 1..4 : PairTurn(c1, c2)

PairSpec == PairInit /\ [][PairNext]_vars

(***************************************************************************)
(* LookupSpec: DungeonSpec with a call of getCurrentRoom after any         *)
(* sequence of advanceToNextRoom and backtrack calls.  The record of the   *)
(* lookup says what its caller saw.                                        *)
(***************************************************************************)
NotLooked == \A i \in 1..Len(unit) : unit[i].op # "getCurrentRoom"

CallGetCurrentRoom ==
    /\ NotLooked
    /\ Len(unit) < MaxCalls
    /\ LET r == IF build = "gui" THEN getCurrentRoomGui(dungeon)
                ELSE getCurrentRoomConsole(dungeon)
       IN  /\ dungeon' = r.d
           /\ unit' = Append(unit, [op |-> "getCurrentRoom", ret |-> r.ret,
                                    thrown |-> r.thrown,
                                    before |-> dungeon, after |-> r.d])
    /\ UNCHANGED << build, pc, windowOpen, fontLoaded, enteredName, tempState, gameState,
                    choice, player, currentRoom, message, gameOverMessage, last >>

LookupNext ==
    \/ NotLooked /\ CallAdvance
    \/ NotLooked /\ CallBacktrack
    \/ CallGetCurrentRoom

LookupSpec == DungeonInit /\ [][LookupNext]_vars

(***************************************************************************)
(* PlayerSpec: Player::useMove and Character::takeDamage of either build   *)
(* called on a player in any order.  unit[1] records the last call and the *)
(* number of useMove calls so far.                                         *)
(***************************************************************************)
\* the damage amounts of the game (bypass, flight, the five thresholds), and 0
Damages == {0, BypassDamage, FleeDamage} \cup {rooms[i].enemyHealth : i \in 1..Len(rooms)}

PlayerInit ==
    /\ build \in {"gui", "console"}
    /\ player = Player(Adventurer)
    /\ dungeon = Dungeon(build)
    /\ last = NoTurn(player, dungeon)
    /\ unit = << [op |-> "Player", arg |-> 0, before |-> player, useMoves |-> 0] >>
    /\ Idle

CallUseMove ==
    /\ unit[1].useMoves < MaxUseMoves
    /\ player' = useMove(build, player)
    /\ unit' = << [op |-> "useMove", arg |-> 0, before |-> player,
                   useMoves |-> unit[1].useMoves + 1] >>
    /\ UNCHANGED << build, pc, windowOpen, fontLoaded, enteredName, tempState, gameState,
                    choice, dungeon, currentRoom, message, gameOverMessage, last >>

CallTakeDamage(a) ==
    /\ player' = takeDamage(player, a)
    /\ unit' = << [op |-> "takeDamage", arg |-> a, before |-> player,
                   useMoves |-> unit[1].useMoves] >>
    /\ UNCHANGED << build, pc, windowOpen, fontLoaded, enteredName, tempState, gameState,
                    choice, dungeon, currentRoom, message, gameOverMessage, last >>

PlayerNext == CallUseMove \/ \E a \in Damages : CallTakeDamage(a)

PlayerSpec == PlayerInit /\ [][PlayerNext]_vars

(***************************************************************************)
(* BuildsSpec: a session of the gui build and a session of the console     *)
(* build played side by side and fed the same action code at every step,   *)
(* each from the point where its loop waits for the first action.  The gui *)
(* session is in the variables of the game loop, the console session in    *)
(* unit[1].                                                                *)
(***************************************************************************)
\* one turn of gameLoop with the integer c read, on the session s: useMove,
\* the switch, and the recursive call up to the next read
playTurnConsole(c, s) ==
    LET r == ResolveConsole(c, s.currentRoom, useMove("console", s.player), s.dungeon)
        e == gameLoopEntry(r.player, r.dungeon, s.currentRoom)
        over == IF r.over # "" THEN r.over ELSE e.over
    IN  [player |-> r.player,
         dungeon |-> IF r.over # "" THEN r.dungeon ELSE e.d,
         currentRoom |-> IF r.over # "" THEN s.currentRoom ELSE e.room,
         message |-> IF c = 4 THEN s.message ELSE r.message,
         gameOverMessage |-> over,
         turns |-> s.turns + 1]

\* the console session at its first read of input
ConsoleSession ==
    LET p == Player(Adventurer)
        e == gameLoopEntry(p, Dungeon("console"), NoRoom)
    IN  [player |-> p, dungeon |-> e.d, currentRoom |-> e.room, message |-> "",
         gameOverMessage |-> e.over, turns |-> 0]

BuildsInit ==
    /\ build = "gui"
    /\ pc = "loop"
    /\ windowOpen = TRUE
    /\ fontLoaded = TRUE
    /\ enteredName = << >>
    /\ tempState = "INSTRUCTIONS"
    /\ gameState = "PLAYING"
    /\ choice = -1
    /\ player = Player(Adventurer)
    /\ dungeon = advanceToNextRoomGui(Dungeon("gui")).d
    /\ currentRoom = advanceToNextRoomGui(Dungeon("gui")).ret
    /\ message = "Entered"
    /\ gameOverMessage = ""
    /\ last = NoTurn(player, Dungeon("gui"))
    /\ unit = << ConsoleSession >>

BuildsTurn(c) ==
    /\ gameState = "PLAYING" /\ unit[1].gameOverMessage = ""
    /\ unit[1].turns < MaxBuildTurns
    /\ LET a == playTurn(c, Session(unit[1].turns))
           b == playTurnConsole(c, unit[1])
       IN  /\ player' = a.player
           /\ dungeon' = a.dungeon
           /\ currentRoom' = a.currentRoom
           /\ message' = a.message
           /\ gameOverMessage' = a.gameOverMessage
           /\ gameState' = IF a.gameOverMessage # "" THEN "GAME_OVER" ELSE "PLAYING"
           /\ unit' = << b >>
    /\ UNCHANGED << build, pc, windowOpen, fontLoaded, enteredName, tempState, choice,
                    last >>

BuildsNext == \E c \in 1..4 : BuildsTurn(c)

BuildsSpec == BuildsInit /\ [][BuildsNext]_vars

(***************************************************************************)
(* ClicksSpec: gameLoopWithGUI from the state in which it has entered the  *)
(* first room, with the clicks on the action buttons counted.  unit[1]     *)
(* holds the number of such clicks polled while the game state was         *)
(* PLAYING, at most MaxClicks of them.                                     *)
(***************************************************************************)
\* the event is a left click on one of the four action buttons
ActionClick(event) ==
    /\ event.type = "MouseButtonPressed" /\ event.button = "Left"
    /\ clickedButton(event.x, event.y) >= 0

ClicksInit ==
    /\ build = "gui"
    /\ pc = "loop"
    /\ windowOpen = TRUE
    /\ fontLoaded = TRUE
    /\ enteredName = << >>
    /\ tempState = "INSTRUCTIONS"
    /\ gameState = "PLAYING"
    /\ choice = -1
    /\ player = Player(Adventurer)
    /\ dungeon = advanceToNextRoomGui(Dungeon("gui")).d
    /\ currentRoom = advanceToNextRoomGui(Dungeon("gui")).ret
    /\ message = "Entered"
    /\ gameOverMessage = ""
    /\ last = EnteredFirst(NoTurn(player, Dungeon("gui")), TRUE)
    /\ unit = << [clicks |-> 0] >>

\* gameLoopWithGUI: one event polled in the running iteration
ClickPolled(event) ==
    /\ pc = "loop" /\ windowOpen
    /\ LET counted == gameState = "PLAYING" /\ ActionClick(event)
           e == handleEvent(event, gameState, choice, enteredName, windowOpen)
       IN  /\ counted => unit[1].clicks < MaxClicks
           /\ gameState' = e.gameState
           /\ choice' = e.choice
           /\ enteredName' = e.enteredName
           /\ windowOpen' = e.windowOpen
           /\ unit' = << [clicks |-> unit[1].clicks + IF counted THEN 1 ELSE 0] >>
    /\ UNCHANGED << build, pc, fontLoaded, tempState, player, dungeon, currentRoom,
                    message, gameOverMessage, last >>

ClicksNext ==
    \/ \E event \in Events : ClickPolled(event)
    \/ LoopUpdate

ClicksSpec == ClicksInit /\ [][ClicksNext]_vars

(***************************************************************************)
(* Vocabulary of the properties.                                           *)
(***************************************************************************)
\* an action has been resolved, and last describes it
Turn == last.n > 0

\* the session goes on after the last action / has ended with a game-over
\* message
Continues ==
    /\ gameOverMessage = ""
    /\ IF build = "gui" THEN gameState = "PLAYING" ELSE pc = "loop"

Ended ==
    /\ gameOverMessage # ""
    /\ IF build = "gui" THEN gameState = "GAME_OVER" ELSE pc \in {"done", "exit"}

\* s and t hold the same items, each as often
SameItems(s, t) ==
    /\ Len(s) = Len(t)
    /\ \A x \in {s[i] : i \in 1..Len(s)} \cup {t[i] : i \in 1..Len(t)} :
          Cardinality({i \in 1..Len(s) : s[i] = x})
            = Cardinality({i \in 1..Len(t) : t[i] = x})

\* the last action left the inventory as it was: the action itself did, the
\* items are the same at the end of the turn, and so is their order unless
\* the turn ended the game (the game-over handling sorts the inventory)
InventoryKept ==
    /\ last.acted.inventory = last.player.inventory
    /\ SameItems(player.inventory, last.player.inventory)
    /\ Continues => player.inventory = last.player.inventory

\* the last action moved the player forward from the room it was resolved
\* in: to the next catalog room, or out of the last one, which wins
MovedForward ==
    IF last.room + 1 < Len(rooms)
    THEN /\ getCurrentRoom(last.moved) = last.room + 1
         /\ getCurrentRoom(dungeon) = last.room + 1
         /\ last.ret = last.room + 1
         /\ Continues => currentRoom = last.room + 1
    ELSE last.ret = NoRoom /\ gameOverMessage = "WIN" /\ Ended

FightWon == Turn /\ last.choice = 1 /\ last.player.health >= Room(last.room).enemyHealth
FightLost == Turn /\ last.choice = 1 /\ last.player.health < Room(last.room).enemyHealth
Bypassed == Turn /\ last.choice = 2
BacktrackFailed == Turn /\ last.choice = 3 /\ Len(last.dungeon.roomStack) <= 1

(***************************************************************************)
(* C1.  After every resolved action other than Quit the outcome follows a  *)
(* fixed priority: WIN if the advance attempted in the turn returned no    *)
(* room, whatever the health and the moves; otherwise LOSE (critical       *)
(* health) if health < 20, whatever the moves; otherwise LOSE (out of      *)
(* moves) if moves <= 0; otherwise the game continues.  Health 20 does not *)
(* lose.                                                                   *)
(***************************************************************************)
C1_OutcomePriority ==
    (Turn /\ last.choice # 4) =>
        /\ gameOverMessage =
              IF last.nav = "advance" /\ last.ret = NoRoom THEN "WIN"
              ELSE IF player.health < 20 THEN "LOSE_HEALTH"
              ELSE IF player.moves <= 0 THEN "LOSE_MOVES"
              ELSE ""
        /\ Continues \/ Ended

\* a win declared with critical health and no move left
C1_Witness ==
    /\ Turn /\ last.choice # 4
    /\ gameOverMessage = "WIN" /\ player.health < 20 /\ player.moves = 0

(***************************************************************************)
(* C2.  A Fight taken with health >= the room's enemy threshold decreases  *)
(* health by exactly the threshold, appends the room's item1 then item2 to *)
(* the inventory, adds 10 coins, increments enemiesDefeated by 1 and moves *)
(* the player to the next catalog room, or wins when there is none.        *)
(***************************************************************************)
C2_FightWon ==
    FightWon =>
        /\ player.health = last.player.health - Room(last.room).enemyHealth
        /\ last.acted.inventory =
              last.player.inventory \o << Room(last.room).item1, Room(last.room).item2 >>
        /\ SameItems(player.inventory, last.acted.inventory)
        /\ Continues => player.inventory = last.acted.inventory
        /\ player.coins = last.player.coins + 10
        /\ player.enemiesDefeated = last.player.enemiesDefeated + 1
        /\ MovedForward

\* a second enemy defeated, the game going on in the next room
C2_Witness ==
    /\ FightWon /\ Continues
    /\ player.enemiesDefeated = 2
    /\ currentRoom = last.room + 1

(***************************************************************************)
(* C3.  A Fight taken with health < the room's enemy threshold decreases   *)
(* health by exactly 10 and leaves the current room, currentIndex, the     *)
(* navigation stack, coins, enemiesDefeated and the inventory unchanged.   *)
(***************************************************************************)
C3_FightLost ==
    FightLost =>
        /\ player.health = last.player.health - 10
        /\ currentRoom = last.room
        /\ dungeon = last.dungeon
        /\ player.coins = last.player.coins
        /\ player.enemiesDefeated = last.player.enemiesDefeated
        /\ InventoryKept

\* a lost fight with treasure in the inventory
C3_Witness ==
    /\ FightLost /\ Continues
    /\ Len(player.inventory) >= 2
    /\ player.health = last.player.health - 10

(***************************************************************************)
(* C4.  Bypass decreases health by exactly 5 and always moves the player   *)
(* forward by one catalog position, or wins from the last room, whatever   *)
(* the health; coins, enemiesDefeated and the inventory are unchanged.     *)
(***************************************************************************)
C4_Bypass ==
    Bypassed =>
        /\ player.health = last.player.health - 5
        /\ MovedForward
        /\ player.coins = last.player.coins
        /\ player.enemiesDefeated = last.player.enemiesDefeated
        /\ InventoryKept

\* a bypass with health already below the room's threshold
C4_Witness ==
    /\ Bypassed /\ Continues
    /\ last.player.health < Room(last.room).enemyHealth
    /\ currentRoom = last.room + 1

(***************************************************************************)
(* C5.  In the gui build a successful Backtrack returns the player to the  *)
(* previously visited room: if the player's most recent forward step took  *)
(* them from room A into room B, a Backtrack taken while in B makes A the  *)
(* current room.                                                           *)
(***************************************************************************)
C5_BacktrackToPrevious ==
    (/\ build = "gui"
     /\ Turn /\ last.choice = 3 /\ last.ret # NoRoom
     /\ last.from # NoRoom)
        => currentRoom = last.from

(***************************************************************************)
(* C6.  A Backtrack taken with zero or one entry on the navigation stack   *)
(* returns no room and changes neither currentIndex nor the stack, nor     *)
(* health, coins, enemiesDefeated or the inventory; only the turn's move   *)
(* is consumed, so that with one move left the game is lost for being out  *)
(* of moves although the health is fine.                                   *)
(***************************************************************************)
C6_BacktrackFailed ==
    BacktrackFailed =>
        /\ last.ret = NoRoom
        /\ last.message = "NoBacktrack"
        /\ dungeon = last.dungeon
        /\ currentRoom = last.room
        /\ player.health = last.player.health
        /\ player.coins = last.player.coins
        /\ player.enemiesDefeated = last.player.enemiesDefeated
        /\ InventoryKept
        /\ player.moves = last.player.moves - 1
        /\ last.player.moves = 1 =>
              /\ player.moves = 0
              /\ player.health >= 20
              /\ gameOverMessage = "LOSE_MOVES" /\ Ended

\* the last move spent on a backtrack that had nowhere to go
C6_Witness ==
    /\ BacktrackFailed
    /\ last.player.moves = 1
    /\ gameOverMessage = "LOSE_MOVES"

(***************************************************************************)
(* C7.  Every resolved action (Fight won or lost, Bypass, Backtrack        *)
(* successful or not, Quit, an unrecognized code) decreases the player's   *)
(* moves by exactly 1.                                                     *)
(***************************************************************************)
C7_ActionCostsOneMove ==
    Turn =>
        /\ player.moves = last.player.moves - 1
        /\ last.acted.moves = last.player.moves - 1

\* an unrecognized code has cost a move
C7_Witness ==
    /\ Turn /\ last.choice \notin 1..4
    /\ player.moves = last.player.moves - 1

(***************************************************************************)
(* C8.  In both builds the move count is never negative: 0 <= moves <= 10  *)
(* in every reachable state, also in the console build, whose useMove      *)
(* decrements without a guard.                                             *)
(***************************************************************************)
C8_MovesInRange == player.moves >= 0 /\ player.moves <= 10

\* the console build with no move left
C8_Witness == build = "console" /\ Turn /\ player.moves = 0

(***************************************************************************)
(* C9.  In every reachable state 0 <= health <= 100: no sequence of        *)
(* actions makes the health negative or raises it above 100.               *)
(***************************************************************************)
C9_HealthInRange == player.health >= 0 /\ player.health <= 100

\* the health brought down to 0
C9_Witness == Turn /\ player.health = 0

(***************************************************************************)
(* C10.  In the gui build a fresh Dungeon has no current room before the   *)
(* first advanceToNextRoom call, and that call returns the first catalog   *)
(* room, Base, so the first room the player acts in is Base (threshold     *)
(* 15).                                                                    *)
(***************************************************************************)
C10_FirstRoomIsBase ==
    build = "gui" =>
        \* right after the first advanceToNextRoom call: nothing was pushed
        \* (there was no current room) and the call returned Base
        /\ currentRoom # NoRoom /\ last.n = 0 =>
              dungeon.roomStack = << >> /\ currentRoom = 0
        \* the first action
        /\ last.n = 1 => last.room = 0 /\ Room(last.room).enemyHealth = 15

(***************************************************************************)
(* C14.  As stated: in the gui build the depth of the navigation stack     *)
(* equals the number of forward advances taken so far, however many        *)
(* backtracks were performed.                                              *)
(***************************************************************************)
C14_DepthIsAdvances ==
    build = "gui" => Len(dungeon.roomStack) = last.advances

\* C14, amended: in the gui build the depth of the navigation stack equals
\* the number of advanceToNextRoom calls made so far minus the number of
\* backtracks that returned a room (every advance pushes one entry, every
\* successful backtrack pops one).
C14_DepthIsAdvancesLessBacktracks ==
    build = "gui" => Len(dungeon.roomStack) = last.advances - last.backtracks

\* a gui session that has backtracked successfully and advanced again
C14_Witness ==
    /\ build = "gui" /\ Turn
    /\ last.backtracks > 0 /\ last.nav = "advance"
    /\ Len(dungeon.roomStack) < last.advances

(***************************************************************************)
(* C15.  In the gui build, whenever a current room exists and the          *)
(* navigation stack is not empty, the top entry of the stack is the        *)
(* current room (so that backtrack pops the current room).                 *)
(***************************************************************************)
C15_TopIsCurrentRoom ==
    (/\ build = "gui"
     /\ getCurrentRoom(dungeon) # NoRoom
     /\ dungeon.roomStack # << >>)
        => dungeon.roomStack[Len(dungeon.roomStack)] = getCurrentRoom(dungeon)

(***************************************************************************)
(* Ascending order of an inventory.                                        *)
(***************************************************************************)
\* no item stands before one that is smaller after folding to lower case
AscendingFolded(s) ==
    \A i, j \in 1..Len(s) :
        i < j => ~StringLess(ToLowerString(Chars[s[j]]), ToLowerString(Chars[s[i]]))

\* the same without folding
AscendingPlain(s) ==
    \A i, j \in 1..Len(s) : i < j => ~StringLess(Chars[s[j]], Chars[s[i]])

(***************************************************************************)
(* C17.  In the gui build, whenever the game is over (WIN, LOSE by health, *)
(* LOSE by moves, QUIT) the inventory shown is in ascending                *)
(* case-insensitive order: it was sorted in the iteration that ended the   *)
(* game, before the game-over screen is first drawn.                       *)
(***************************************************************************)
C17_GuiSortedAtGameOver ==
    (build = "gui" /\ gameState = "GAME_OVER") =>
        /\ AscendingFolded(player.inventory)
        /\ Turn => SameItems(player.inventory, last.acted.inventory)

\* a game over whose last action left the inventory out of order
C17_Witness ==
    /\ build = "gui" /\ gameState = "GAME_OVER" /\ Turn
    /\ gameOverMessage \in {"WIN", "LOSE_HEALTH", "LOSE_MOVES", "QUIT"}
    /\ ~AscendingFolded(last.acted.inventory)

(***************************************************************************)
(* C18.  In the console build, on every terminal outcome (WIN, LOSE by     *)
(* health, LOSE by moves, QUIT) sortInventory has been applied before the  *)
(* final stats are reported: the inventory reported is what sortInventory  *)
(* makes of it, and is in ascending order.                                 *)
(***************************************************************************)
C18_ConsoleSortedAtGameOver ==
    (build = "console" /\ Ended) =>
        /\ player.inventory = sortInventory("console", player).inventory
        /\ AscendingPlain(player.inventory)

(***************************************************************************)
(* C20.  Quit is immediately terminal from any playing state: the session  *)
(* ends in that same turn with the quit message, without any win/lose      *)
(* evaluation (also when the turn used the last move), and health, coins,  *)
(* enemiesDefeated, the items of the inventory, currentIndex and the       *)
(* navigation stack are left unchanged.                                    *)
(***************************************************************************)
C20_QuitIsTerminal ==
    (Turn /\ last.choice = 4) =>
        /\ Ended /\ gameOverMessage = "QUIT"
        /\ player.health = last.player.health
        /\ player.coins = last.player.coins
        /\ player.enemiesDefeated = last.player.enemiesDefeated
        /\ last.acted.inventory = last.player.inventory
        /\ SameItems(player.inventory, last.player.inventory)
        /\ last.nav = "none"
        /\ last.moved = last.dungeon /\ dungeon = last.dungeon

\* a Quit that used the last move
C20_Witness ==
    /\ Turn /\ last.choice = 4
    /\ last.player.moves = 1 /\ player.moves = 0
    /\ gameOverMessage = "QUIT"

(***************************************************************************)
(* C11.  On a fresh Dungeon with N rooms, in any run of consecutive        *)
(* advanceToNextRoom calls with no backtrack in between, no room is        *)
(* returned twice, and every call after the N-th returns no room and       *)
(* leaves currentRoomIndex and the stack as they were.                     *)
(***************************************************************************)
C11_AdvanceRun ==
    (\A i \in 1..Len(unit) : unit[i].op = "advance") =>
        /\ \A i, j \in 1..Len(unit) :
              (i < j /\ unit[i].ret # NoRoom) => unit[i].ret # unit[j].ret
        /\ \A i \in 1..Len(unit) :
              i > getAssetCount => unit[i].ret = NoRoom /\ unit[i].after = unit[i].before

\* a run of advances that goes on for two calls beyond the N-th
C11_Witness ==
    /\ Len(unit) = getAssetCount + 2
    /\ \A i \in 1..Len(unit) : unit[i].op = "advance"

C13_AdvanceAfterBacktrack ==
    \A i \in 2..Len(unit) :
        (/\ unit[i - 1].op = "backtrack" /\ unit[i - 1].ret # NoRoom
         /\ unit[i].op = "advance") =>
            /\ Len(unit[i].after.roomStack) = Len(unit[i - 1].after.roomStack) + 1
            /\ SubSeq(unit[i].after.roomStack, 1, Len(unit[i - 1].after.roomStack))
                  = unit[i - 1].after.roomStack

\* forward, back, forward in the console build, and the same in the gui build
\* from a stack that has held a room twice
C13_Witness ==
    \E i \in 2..Len(unit) :
        /\ unit[i - 1].op = "backtrack" /\ unit[i - 1].ret # NoRoom
        /\ unit[i].op = "advance"
        /\ build = "gui" =>
              \E j, k \in 1..Len(unit[i].after.roomStack) :
                  j < k /\ unit[i].after.roomStack[j] = unit[i].after.roomStack[k]

(***************************************************************************)
(* C19.  In both builds Player::sortInventory turns any inventory into a   *)
(* permutation of itself that is ascending under case-insensitive          *)
(* comparison (the strings compared after folding to lower case); so       *)
(* <<"armour", "5 Coins", "Key">> becomes <<"5 Coins", "armour", "Key">>.  *)
(***************************************************************************)
C19_SortIsCaseInsensitive ==
    unit # << >> =>
        /\ SameItems(player.inventory, unit[1].before)
        /\ AscendingFolded(player.inventory)
        /\ unit[1].before = <<"armour", "5 Coins", "Key">>
              => player.inventory = <<"5 Coins", "armour", "Key">>

(***************************************************************************)
(* C16.  In the gui build the resolution of a turn is a function of the    *)
(* player, the current room and the action alone: two sessions that agree  *)
(* on health, moves, coins, enemiesDefeated, inventory and current room    *)
(* get the same next room, the same player and the same outcome from the   *)
(* same action, whatever paths led them there.                             *)
(***************************************************************************)
C16_TurnDependsOnPlayerAndRoom ==
    (/\ gameState = "PLAYING" /\ unit[1].gameOverMessage = ""
     /\ player = unit[1].player
     /\ currentRoom = unit[1].currentRoom) =>
        \A c \in 1..4 :
            LET a == playTurn(c, Session(unit[1].turns))
                b == playTurn(c, unit[1])
            IN  /\ a.currentRoom = b.currentRoom
                /\ a.player = b.player
                /\ a.gameOverMessage = b.gameOverMessage

(***************************************************************************)
(* C21.  An unrecognized action code (a positive code other than 1..4) is  *)
(* a no-op turn that still consumes one move: health, coins,               *)
(* enemiesDefeated, inventory, currentRoomIndex and the stack are          *)
(* unchanged, the session does not abort, and the usual lose checks then   *)
(* apply.                                                                  *)
(***************************************************************************)
UnrecognizedTurn == Turn /\ last.choice > 0 /\ last.choice \notin 1..4

C21_UnrecognizedCode ==
    UnrecognizedTurn =>
        /\ player.moves = last.player.moves - 1
        /\ player.health = last.player.health
        /\ player.coins = last.player.coins
        /\ player.enemiesDefeated = last.player.enemiesDefeated
        /\ InventoryKept
        /\ last.nav = "none"
        /\ last.moved = last.dungeon /\ dungeon = last.dungeon
        /\ gameOverMessage = IF player.health < 20 THEN "LOSE_HEALTH"
                             ELSE IF player.moves <= 0 THEN "LOSE_MOVES"
                             ELSE ""
        /\ Continues \/ Ended

\* an unrecognized code that used the last move
C21_Witness ==
    /\ UnrecognizedTurn
    /\ last.player.moves = 1 /\ gameOverMessage = "LOSE_MOVES"
    /\ player.inventory # << >>

(***************************************************************************)
(* C22.  As stated: from health 100 and moves 10, five consecutive Fight   *)
(* actions defeat the enemies in turn and the session ends in WIN after    *)
(* the fifth with enemiesDefeated = 5, coins = 50 and 10 items.            *)
(***************************************************************************)
C22_FiveFightsWin ==
    (Turn /\ last.onlyFights) =>
        /\ last.acted.enemiesDefeated = last.n
        /\ last.n < 5 => Continues
        /\ last.n = 5 =>
              /\ Ended /\ gameOverMessage = "WIN"
              /\ player.enemiesDefeated = 5 /\ player.coins = 50
              /\ Len(player.inventory) = 10

\* C22, amended: from health 100 and moves 10, a session of Fight actions
\* only never wins.  A Fight is won only with health >= the threshold, so at
\* most three enemies are defeated (10 coins and 2 items each), and the
\* session ends in LOSE (critical health) with the fifth Fight at the
\* latest.  In the console build the Fights in Base, Bronze and Platinum are
\* won (health 85, 60, 25), the fourth, in Silver, is lost (health 15) and
\* ends the session with enemiesDefeated = 3, coins = 30 and 6 items.
C22_FightsOnlyLose ==
    (Turn /\ last.onlyFights) =>
        /\ gameOverMessage # "WIN"
        /\ player.enemiesDefeated <= 3
        /\ player.coins = 10 * player.enemiesDefeated
        /\ Len(player.inventory) = 2 * player.enemiesDefeated
        /\ last.n <= 5
        /\ Continues \/ (Ended /\ gameOverMessage = "LOSE_HEALTH")
        /\ last.n = 5 => Ended
        /\ build = "console" =>
              /\ last.n <= 4
              /\ last.n < 4 => Continues /\ player.enemiesDefeated = last.n
              /\ last.n = 4 =>
                    /\ Ended /\ player.health = 15
                    /\ player.enemiesDefeated = 3 /\ player.coins = 30
                    /\ Len(player.inventory) = 6

\* the console session of four Fights
C22_Witness ==
    /\ build = "console" /\ Turn /\ last.onlyFights /\ last.n = 4
    /\ gameOverMessage = "LOSE_HEALTH"

(***************************************************************************)
(* C27.  Every session terminates: any sequence of resolved actions        *)
(* reaches a terminal outcome after at most 10 resolved actions, because   *)
(* each one costs a move and the player has 10.                            *)
(***************************************************************************)
C27_TenActionsAtMost ==
    /\ last.n <= 10
    /\ Turn => player.moves = 10 - last.n
    /\ Turn => Continues \/ Ended
    /\ last.n = 10 => Ended

\* a session that lasted 10 actions
C27_Witness == last.n = 10 /\ Ended /\ gameOverMessage = "LOSE_MOVES"

(***************************************************************************)
(* C28.  In the gui build the screens follow the order name input,         *)
(* instructions, gameplay, game over: once the name is confirmed with      *)
(* Enter, the next screen shown is the instructions screen, and the name   *)
(* prompt is not presented again.  (gameLoopWithGUI runs only after main's *)
(* name loop has ended, so no screen it draws is the name prompt.)         *)
(***************************************************************************)
C28_NamePromptNotShownAgain ==
    build = "gui" => last.screen # "NAME_INPUT"

(***************************************************************************)
(* C29.  A WIN is reached only by escaping the last catalog room: the      *)
(* outcome is WIN exactly when the last action was a won Fight or a Bypass *)
(* resolved in Gold; never from another room or through Backtrack, a lost  *)
(* Fight, Quit or an invalid action.                                       *)
(***************************************************************************)
C29_WinOnlyFromLastRoom ==
    (gameOverMessage = "WIN") <=>
        (/\ Turn /\ last.room # NoRoom /\ Room(last.room).name = "Gold"
         /\ FightWon \/ Bypassed)

\* a win by a Fight won in Gold
C29_Witness == gameOverMessage = "WIN" /\ FightWon

(***************************************************************************)
(* C30.  Every session starts with health = 100, moves = 10, coins = 0,    *)
(* enemiesDefeated = 0 and an empty inventory, with an empty navigation    *)
(* stack.                                                                  *)
(***************************************************************************)
FreshStats(p) ==
    /\ p.health = 100 /\ p.moves = 10 /\ p.coins = 0
    /\ p.enemiesDefeated = 0 /\ p.inventory = << >>

C30_SessionStartsFresh ==
    /\ ~Turn => FreshStats(player)
    /\ last.n = 1 => FreshStats(last.player)
    /\ last.advances = 0 => dungeon.roomStack = << >>

\* a session in its first room, no action resolved yet
C30_Witness == pc = "loop" /\ ~Turn /\ currentRoom # NoRoom

(***************************************************************************)
(* C23.  getCurrentRoom is a pure lookup: for every value of               *)
(* currentRoomIndex (-1 and the catalog size included) it changes no       *)
(* state, returns the catalog room at the index when the index is in the   *)
(* catalog and no room otherwise, and no error reaches its caller.         *)
(***************************************************************************)
C23_LookupIsPure ==
    \A i \in 1..Len(unit) :
        unit[i].op = "getCurrentRoom" =>
            LET index == unit[i].before.currentRoomIndex
            IN  /\ ~unit[i].thrown
                /\ unit[i].after = unit[i].before /\ dungeon = unit[i].before
                /\ unit[i].ret = IF 0 <= index /\ index < 5 THEN index ELSE NoRoom
                /\ unit[i].ret # NoRoom => Room(unit[i].ret) = rooms[index + 1]

\* a lookup in the gui build with the index at the catalog size
C23_Witness ==
    /\ unit # << >> /\ unit[Len(unit)].op = "getCurrentRoom"
    /\ build = "gui"
    /\ unit[Len(unit)].before.currentRoomIndex = 5
    /\ unit[Len(unit)].ret = NoRoom

(***************************************************************************)
(* C24.  The console build and the gui build are the same state machine:   *)
(* fed the same action codes from a fresh session, both go through the     *)
(* same current room, health, moves, coins, enemiesDefeated, inventory and *)
(* outcome.                                                                *)
(***************************************************************************)
C24_BuildsAgree ==
    /\ gameOverMessage = unit[1].gameOverMessage
    /\ gameOverMessage = "" => currentRoom = unit[1].currentRoom
    /\ player.health = unit[1].player.health
    /\ player.moves = unit[1].player.moves
    /\ player.coins = unit[1].player.coins
    /\ player.enemiesDefeated = unit[1].player.enemiesDefeated
    /\ player.inventory = unit[1].player.inventory

(***************************************************************************)
(* C25.  In both builds useMove decrements moves by 1 and is floored at 0: *)
(* called with moves = 0 it leaves moves at 0.                             *)
(***************************************************************************)
C25_UseMoveFloored ==
    unit[1].op = "useMove" =>
        /\ unit[1].before.moves > 0 => player.moves = unit[1].before.moves - 1
        /\ unit[1].before.moves = 0 => player.moves = 0
        /\ player.moves >= 0

(***************************************************************************)
(* C26.  For every health h >= 0 and damage a >= 0, takeDamage(a) sets     *)
(* health to max(0, h - a) and changes nothing else: name, moves, coins,   *)
(* enemiesDefeated and inventory are untouched.                            *)
(***************************************************************************)
C26_TakeDamageClamped ==
    unit[1].op = "takeDamage" =>
        LET h == unit[1].before.health
            a == unit[1].arg
        IN  /\ h >= 0 /\ a >= 0
            /\ player.health = IF h - a > 0 THEN h - a ELSE 0
            /\ player.name = unit[1].before.name
            /\ player.moves = unit[1].before.moves
            /\ player.coins = unit[1].before.coins
            /\ player.enemiesDefeated = unit[1].before.enemiesDefeated
            /\ player.inventory = unit[1].before.inventory

\* a damage above the health left, after a move was used
C26_Witness ==
    /\ unit[1].op = "takeDamage"
    /\ unit[1].before.health > 0 /\ unit[1].arg > unit[1].before.health
    /\ player.health = 0 /\ player.moves < 10

(***************************************************************************)
(* C31.  A successful backtrack (stack depth > 1 beforehand) pops exactly  *)
(* one level: the depth decreases by 1 and stays >= 1, currentRoomIndex    *)
(* becomes the catalog position of the new top, the room returned is that  *)
(* entry, and the navigation call changes no player stat (the turn's       *)
(* useMove is what costs the move).                                        *)
(***************************************************************************)
BacktrackSucceeded ==
    Turn /\ last.nav = "backtrack" /\ Len(last.dungeon.roomStack) > 1

C31_BacktrackPopsOne ==
    BacktrackSucceeded =>
        LET before == last.dungeon.roomStack
            after == last.moved.roomStack
        IN  /\ Len(after) = Len(before) - 1 /\ Len(after) >= 1
            /\ after = SubSeq(before, 1, Len(before) - 1)
            /\ last.moved.currentRoomIndex = after[Len(after)]
            /\ last.ret = after[Len(after)]
            /\ dungeon = last.moved
            /\ last.acted = [last.player EXCEPT !.moves = @ - 1]
            /\ player.health = last.player.health
            /\ player.coins = last.player.coins
            /\ player.enemiesDefeated = last.player.enemiesDefeated
            /\ InventoryKept

\* a backtrack from a stack of depth 3, by a player who has loot
C31_Witness ==
    /\ BacktrackSucceeded /\ Len(last.dungeon.roomStack) = 3
    /\ last.player.coins > 0

(***************************************************************************)
(* C34.  In both builds, in every reachable state coins = 10 *             *)
(* enemiesDefeated and the inventory holds exactly 2 * enemiesDefeated     *)
(* items: coins and items are gained only by a won Fight and never lost.   *)
(***************************************************************************)
C34_LootMatchesDefeats ==
    /\ player.coins = 10 * player.enemiesDefeated
    /\ Len(player.inventory) = 2 * player.enemiesDefeated
    /\ Turn =>
          /\ last.acted.coins = 10 * last.acted.enemiesDefeated
          /\ Len(last.acted.inventory) = 2 * last.acted.enemiesDefeated
          /\ player.coins >= last.player.coins
          /\ Len(player.inventory) >= Len(last.player.inventory)
          /\ ~FightWon => /\ player.coins = last.player.coins
                          /\ player.enemiesDefeated = last.player.enemiesDefeated
                          /\ SameItems(player.inventory, last.player.inventory)

\* a player with the loot of three won Fights
C34_Witness == player.enemiesDefeated = 3 /\ player.coins = 30

(***************************************************************************)
(* C35.  In both builds, in every state in which an action can be resolved *)
(* (the session is playing and the first room has been entered) a current  *)
(* room exists (0 <= currentRoomIndex < N), health >= 20 and moves >= 1;   *)
(* so Fight and Bypass are never resolved against no room.                 *)
(***************************************************************************)
CanAct ==
    IF build = "gui"
    THEN pc = "loop" /\ gameState = "PLAYING" /\ currentRoom # NoRoom
    ELSE pc = "loop"

C35_CanActInARoom ==
    /\ CanAct =>
          /\ 0 <= dungeon.currentRoomIndex /\ dungeon.currentRoomIndex < 5
          /\ 0 <= currentRoom /\ currentRoom < 5
          /\ player.health >= 20
          /\ player.moves >= 1
    /\ (Turn /\ last.choice \in {1, 2}) => 0 <= last.room /\ last.room < 5

\* a playing state with the least health and the last move
C35_Witness == CanAct /\ Turn /\ player.health = 20 /\ player.moves = 1

(***************************************************************************)
(* C36.  In the gui build, once the first room has been entered, the       *)
(* loop's currentRoom equals Dungeon::getCurrentRoom() after every         *)
(* resolved turn, failed and successful backtracks included, and at WIN,   *)
(* where both are no room.                                                 *)
(***************************************************************************)
C36_LoopRoomIsDungeonRoom ==
    (build = "gui" /\ last.advances > 0) =>
        /\ currentRoom = getCurrentRoomGui(dungeon).ret
        /\ Turn => last.ret = IF last.nav = "none" \/ BacktrackFailed THEN NoRoom
                              ELSE getCurrentRoomGui(last.moved).ret
        /\ gameOverMessage = "WIN" => currentRoom = NoRoom

\* a gui session back in an earlier room after a successful backtrack
C36_Witness ==
    /\ build = "gui" /\ BacktrackSucceeded /\ Continues
    /\ currentRoom < last.room

(***************************************************************************)
(* C37.  In the console build, after the first advance the navigation      *)
(* stack holds exactly the catalog rooms 0..currentRoomIndex in order      *)
(* (depth = currentRoomIndex + 1, top = current room), after any sequence  *)
(* of advances and backtracks; hence a successful backtrack decreases      *)
(* currentRoomIndex by exactly 1.                                          *)
(***************************************************************************)
C37_ConsoleStackIsPath ==
    build = "console" =>
        /\ dungeon.currentRoomIndex >= 0 =>
              /\ Len(dungeon.roomStack) = dungeon.currentRoomIndex + 1
              /\ \A i \in 1..Len(dungeon.roomStack) : dungeon.roomStack[i] = i - 1
              /\ dungeon.roomStack[Len(dungeon.roomStack)] = getCurrentRoom(dungeon)
        /\ dungeon.currentRoomIndex < 0 =>
              \A i \in 1..Len(unit) : unit[i].op # "advance"
        /\ \A i \in 1..Len(unit) :
              (unit[i].op = "backtrack" /\ unit[i].ret # NoRoom) =>
                 /\ unit[i].after.currentRoomIndex = unit[i].before.currentRoomIndex - 1
                 /\ unit[i].ret = unit[i].after.currentRoomIndex

\* a console dungeon that backtracked, advanced and backtracked again
C37_Witness ==
    /\ build = "console" /\ Len(unit) >= 3
    /\ unit[Len(unit)].op = "backtrack" /\ unit[Len(unit)].ret # NoRoom
    /\ unit[Len(unit) - 1].op = "advance" /\ unit[Len(unit) - 1].ret # NoRoom
    /\ \E i \in 1..(Len(unit) - 2) : unit[i].op = "backtrack" /\ unit[i].ret # NoRoom

(***************************************************************************)
(* C38.  Terminal outcomes are absorbing: once a session has reached WIN,  *)
(* LOSE or QUIT, no later input resolves another action, and health,       *)
(* moves, coins, enemiesDefeated, the set of inventory items,              *)
(* currentRoomIndex and the navigation stack never change again.  (The     *)
(* console's play-again answer starts another session, with a new Player   *)
(* and Dungeon.)                                                           *)
(***************************************************************************)
C38_TerminalIsAbsorbing ==
    [][(Ended /\ pc' # "main") =>
          /\ Ended'
          /\ gameOverMessage' = gameOverMessage
          /\ last'.n = last.n
          /\ player'.health = player.health
          /\ player'.moves = player.moves
          /\ player'.coins = player.coins
          /\ player'.enemiesDefeated = player.enemiesDefeated
          /\ SameItems(player'.inventory, player.inventory)
          /\ dungeon' = dungeon]_vars

\* a won gui session with loot, its window closed from the game-over screen
C38_Witness ==
    /\ Ended /\ build = "gui" /\ pc = "done"
    /\ gameOverMessage = "WIN" /\ player.inventory # << >>

(***************************************************************************)
(* C33.  In the gui build, the name of the Player used for the session's   *)
(* stats equals the text in the name input field at the moment the name    *)
(* screen is last left with Enter, or "Adventurer" when that text is       *)
(* empty.  (The field changes on the name screen only, so past the name    *)
(* screen it still holds the text it had when Enter was pressed.)          *)
(***************************************************************************)
C33_NameIsConfirmedText ==
    (build = "gui" /\ pc = "loop" /\ gameState # "NAME_INPUT") =>
        player.name = IF enteredName = << >> THEN Adventurer ELSE enteredName

(***************************************************************************)
(* C32.  In the gui event loop, each action-button click received while    *)
(* the game is in the PLAYING state results in exactly one resolved turn:  *)
(* no click is dropped and none is applied twice, also when several clicks *)
(* are polled within the same loop iteration.  So the resolved turns never *)
(* outnumber the clicks, and between two iterations (no choice pending)    *)
(* there are as many resolved turns as clicks.                             *)
(***************************************************************************)
C32_EveryClickIsOneTurn ==
    /\ last.n <= unit[1].clicks
    /\ choice = -1 => last.n = unit[1].clicks

(***************************************************************************)
(* C39.  In both builds, within one session each room's enemy is defeated, *)
(* and its treasure and 10 coins awarded, at most once, also when the      *)
(* player backtracks into a room whose enemy was already defeated and      *)
(* fights again.                                                           *)
(***************************************************************************)
C39_EnemyDefeatedOnce ==
    \A r \in 0..4 : last.defeats[r] <= 1

====
